---------------------------- MODULE Spec2Model ----------------------------
(***************************************************************************)
(* Model of flux-suspend-checker: a Prometheus collector whose collect()   *)
(* sweeps every listable resource kind of a Kubernetes cluster, removes    *)
(* the suspend annotations of resources whose suspension has timed out     *)
(* and reports the remaining suspended resources in three gauge families.  *)
(*                                                                         *)
(* Strings that the program takes apart (annotation keys, JSON Patch       *)
(* paths) are sequences of tokens: a token is either one of the special    *)
(* characters "/", "~", "0", "1" or a run of other characters.             *)
(***************************************************************************)
EXTENDS Integers, Sequences, FiniteSets, TLC

VARIABLES
    annotations,  \* cluster state: object -> its metadata.annotations mapping
    now,          \* the wall clock read by datetime.now()
    sweep,        \* sweeper -> the frame of its collect() call
    calls,        \* the PATCH requests received by the API server, in order
    scrapes,      \* the collect() calls that ended, in order, with what they returned
    budget        \* the scrapes still to come

vars == <<annotations, now, sweep, calls, scrapes, budget>>

-----------------------------------------------------------------------------
(* Bounds of the model *)

\* last value the clock takes
MaxClock == 4
\* scrapes served by a worker that runs alone
MaxSweeps == 2
\* scrapes served by the workers that run side by side, all together
MaxConcSweeps == 2
\* scrapes served where one sweep is followed from start to end
MaxSoloSweeps == 1
\* characters of the longest annotation key that is escaped
MaxKeyLen == 3

-----------------------------------------------------------------------------
(* Program constants *)

RECONCILE_ANNOTATION == <<"kustomize.toolkit.fluxcd.io", "/", "reconcile">>
SUSPEND_UNTIL_ANNOTATION == <<"flux.b2.genesiscloud.dev", "/", "suspend-until">>
SUSPENDED_BY_ANNOTATION == <<"flux.b2.genesiscloud.dev", "/", "suspended-by">>

\* gunicorn runs several worker processes, each serving scrapes on its own;
\* two of them stand for the lot
Sweepers == {"w1", "w2"}

-----------------------------------------------------------------------------
(* The cluster the sweeps run against *)

\* an annotation the program has no business with
OTHER_ANNOTATION == <<"app.kubernetes.io", "/", "name">>

\* ApisApi().get_api_versions().groups: each group with the versions it is
\* served at and the one the server prefers
APIGroups ==
    << [name |-> "apps", versions |-> <<"v1beta1", "v1">>, preferred_version |-> "v1"] >>

\* the 'resources' of the discovery document of a group
APIResources(group) ==
    IF group = ""
    THEN << [name |-> "bindings", kind |-> "Binding",
             verbs |-> {"create"}, namespaced |-> TRUE],
            [name |-> "namespaces", kind |-> "Namespace",
             verbs |-> {"get", "list", "patch"}, namespaced |-> FALSE],
            [name |-> "configmaps", kind |-> "ConfigMap",
             verbs |-> {"get", "list", "patch"}, namespaced |-> TRUE] >>
    ELSE << [name |-> "deployments", kind |-> "Deployment",
             verbs |-> {"get", "list", "patch"}, namespaced |-> TRUE],
            [name |-> "deployments/status", kind |-> "Deployment",
             verbs |-> {}, namespaced |-> TRUE] >>

\* the objects of the cluster, each with the coordinates of its kind
Objects == {"bind", "demo", "myapp"}

ObjectInfo(o) ==
    CASE o = "bind"  -> [group |-> "", version |-> "v1", plural |-> "bindings",
                         namespaced |-> TRUE, namespace |-> "apps"]
      [] o = "demo"  -> [group |-> "", version |-> "v1", plural |-> "namespaces",
                         namespaced |-> FALSE, namespace |-> ""]
      [] o = "myapp" -> [group |-> "apps", version |-> "v1", plural |-> "deployments",
                         namespaced |-> TRUE, namespace |-> "apps"]

\* the order in which the API server returns the objects of a kind
ObjectsOf(group, plural) ==
    CASE group = "" /\ plural = "bindings"       -> <<"bind">>
      [] group = "" /\ plural = "namespaces"     -> <<"demo">>
      [] group = "apps" /\ plural = "deployments" -> <<"myapp">>
      [] OTHER -> <<>>


-----------------------------------------------------------------------------
(* Annotation values *)

\* the marker of an annotation that is not set
Absent == "<absent>"
NoTimestamp == [form |-> "absent"]

\* suspend-until values: a naive ISO-8601 instant, an instant with a UTC
\* offset, or text that is no ISO-8601 timestamp; "raises" is the exception
\* class the parser raises for that text
Timestamps == {1, 3}

UntilValues ==
    {[form |-> "naive", t |-> t] : t \in Timestamps}
    \cup {[form |-> "aware", t |-> 1]}
    \cup {[form |-> "malformed", raises |-> e] : e \in {"ValueError", "ParserError"}}

\* the annotations mapping with the given values (Absent: key not set)
MkAnnotations(reconcile, until, by, other) ==
    LET keys == (IF reconcile # Absent THEN {RECONCILE_ANNOTATION} ELSE {})
                \cup (IF until # NoTimestamp THEN {SUSPEND_UNTIL_ANNOTATION} ELSE {})
                \cup (IF by # Absent THEN {SUSPENDED_BY_ANNOTATION} ELSE {})
                \cup (IF other # Absent THEN {OTHER_ANNOTATION} ELSE {})
    IN [k \in keys |-> IF k = RECONCILE_ANNOTATION THEN reconcile
                       ELSE IF k = SUSPEND_UNTIL_ANNOTATION THEN until
                       ELSE IF k = SUSPENDED_BY_ANNOTATION THEN by
                       ELSE other]

\* dict.get(key) with default None
Get(d, k) == IF k \in DOMAIN d THEN d[k] ELSE Absent

\* the annotation sets an object may start with: every combination of
\* suspend-until and suspended-by on a resource with reconcile "disabled",
\* and resources with another reconcile value or none, with and without
\* the other two annotations
Profiles(other) ==
    {MkAnnotations("disabled", u, b, other) :
        u \in {NoTimestamp} \cup UntilValues, b \in {Absent, "alice"}}
    \cup {MkAnnotations(r, u, b, other) :
            r \in {Absent, "enabled"},
            u \in {NoTimestamp, [form |-> "naive", t |-> 1]},
            b \in {Absent, "alice"}}

\* the item of a list response for object o: its 'metadata' carries the
\* namespace only when the object is namespaced
Item(o, ann) ==
    IF ObjectInfo(o).namespaced
    THEN [metadata |-> [name |-> o, namespace |-> ObjectInfo(o).namespace,
                        annotations |-> ann]]
    ELSE [metadata |-> [name |-> o, annotations |-> ann]]

-----------------------------------------------------------------------------
(* dateutil.parser.isoparse and the comparison with datetime.now() *)

\* isoparse(timeout): the parsed datetime, or the exception raised. isoparse
\* reports text it cannot read with a plain ValueError; ParserError, the
\* subclass of ValueError that the handler names, is the other outcome a
\* parser failure can have
Isoparse(timeout) ==
    IF timeout.form = "malformed"
    THEN [raised |-> timeout.raises, form |-> "none", t |-> 0]
    ELSE [raised |-> "", form |-> timeout.form, t |-> timeout.t]

\* a comparison that takes the instant itself for the past
LessThanNow_OrEqual(dt, clock) ==
    IF dt.form = "aware" THEN [raised |-> "TypeError", value |-> FALSE]
    ELSE [raised |-> "", value |-> dt.t <= clock]

\* the comparison the wrong way round
LessThanNow_Flipped(dt, clock) ==
    IF dt.form = "aware" THEN [raised |-> "TypeError", value |-> FALSE]
    ELSE [raised |-> "", value |-> dt.t > clock]

\* dt < datetime.now(): now() is naive, and comparing an offset-aware
\* datetime with a naive one raises TypeError
LessThanNow(dt, clock) ==
    IF dt.form = "aware" THEN [raised |-> "TypeError", value |-> FALSE]
    ELSE [raised |-> "", value |-> dt.t < clock]

-----------------------------------------------------------------------------
(* String helpers *)

RECURSIVE Replace(_, _, _)
\* str.replace(old, new) with old a single character
Replace(s, old, new) ==
    IF s = <<>> THEN <<>>
    ELSE (IF Head(s) = old THEN new ELSE <<Head(s)>>) \o Replace(Tail(s), old, new)

\* the f-string '/apis/{group}/{version}' or '/api/{version}', then the
\* namespace and '/{plural}/{name}'
Endpoint(group, version, plural, namespace, name) ==
    (IF group # "" THEN <<"/", "apis", "/", group, "/", version>>
     ELSE <<"/", "api", "/", version>>)
    \o (IF namespace # "" THEN <<"/", "namespaces", "/", namespace>> ELSE <<>>)
    \o <<"/", plural, "/", name>>

\* the endpoint of the group discovery behind ApisApi().get_api_versions()
GroupsEndpoint == <<"/", "apis", "/">>

\* the f-string '/apis/{group}/{version}' or '/api/{version}' of
\* getAllResourceKindsInAPI
KindsEndpoint(group, version) ==
    IF group # "" THEN <<"/", "apis", "/", group, "/", version>>
    ELSE <<"/", "api", "/", version>>

\* the f-string of getAllResourcesInAPI
ItemsEndpoint(group, version, plural) ==
    IF group # "" THEN <<"/", "apis", "/", group, "/", version, "/", plural>>
    ELSE <<"/", "api", "/", version, "/", plural>>

\* the two replacements in the other order
PatchBody_SlashFirst(keys) ==
    [i \in 1..Len(keys) |->
        [op |-> "remove",
         path |-> <<"/", "metadata", "/", "annotations", "/">>
                  \o Replace(Replace(keys[i], "/", <<"~", "1">>), "~", <<"~", "0">>)]]

\* the JSON Patch built from the annotation keys
PatchBody(keys) ==
    [i \in 1..Len(keys) |->
        [op |-> "remove",
         path |-> <<"/", "metadata", "/", "annotations", "/">>
                  \o Replace(Replace(keys[i], "~", <<"~", "0">>), "/", <<"~", "1">>)]]

\* removeResourceAnnotation up to the call: the request it sends
RemoveRequest(group, version, plural, namespace, name, keys) ==
    [endpoint |-> Endpoint(group, version, plural, namespace, name),
     body |-> PatchBody(keys)]


-----------------------------------------------------------------------------
(* The API server's side of a PATCH request *)

\* the URL under which the server serves object o
ObjectPath(o) ==
    LET i == ObjectInfo(o)
    IN (IF i.group = "" THEN <<"/", "api", "/", i.version>>
        ELSE <<"/", "apis", "/", i.group, "/", i.version>>)
       \o (IF i.namespaced THEN <<"/", "namespaces", "/", i.namespace>> ELSE <<>>)
       \o <<"/", i.plural, "/", o>>

RECURSIVE SplitPointer(_, _)
\* the reference tokens of a JSON Pointer: the text between the "/"s
SplitPointer(path, current) ==
    IF path = <<>> THEN <<current>>
    ELSE IF Head(path) = "/" THEN <<current>> \o SplitPointer(Tail(path), <<>>)
    ELSE SplitPointer(Tail(path), Append(current, Head(path)))

RECURSIVE ReplacePair(_, _, _, _)
\* every occurrence of the two characters a b replaced by c
ReplacePair(s, a, b, c) ==
    IF Len(s) < 2 THEN s
    ELSE IF s[1] = a /\ s[2] = b THEN <<c>> \o ReplacePair(Tail(Tail(s)), a, b, c)
    ELSE <<s[1]>> \o ReplacePair(Tail(s), a, b, c)

\* RFC 6901: first "~1" to "/", then "~0" to "~"
Unescape(token) == ReplacePair(ReplacePair(token, "~", "1", "/"), "~", "0", "~")

\* the annotation key a remove operation names, <<>> when the path is not
\* /metadata/annotations/<key>
TargetKey(op) ==
    LET tokens == SplitPointer(op.path, <<>>)
    IN IF Len(tokens) = 4 /\ tokens[1] = <<>> /\ tokens[2] = <<"metadata">>
          /\ tokens[3] = <<"annotations">>
       THEN Unescape(tokens[4])
       ELSE <<>>

RECURSIVE ApplyJsonPatch(_, _)
\* the operations applied in order; removing a member that does not exist
\* is an error and the whole patch is rejected
ApplyJsonPatch(ann, body) ==
    IF body = <<>> THEN [ok |-> TRUE, annotations |-> ann]
    ELSE LET key == TargetKey(Head(body))
         IN IF key \notin DOMAIN ann THEN [ok |-> FALSE, annotations |-> ann]
            ELSE ApplyJsonPatch([k \in DOMAIN ann \ {key} |-> ann[k]], Tail(body))

\* the server's answer to PATCH endpoint with body, given the cluster state:
\* the HTTP status and the cluster state after it; "up" is whether the
\* request got through to a working server
ServePatch(cluster, request, up) ==
    LET targets == {o \in Objects : ObjectPath(o) = request.endpoint}
    IN IF ~up THEN [status |-> 500, cluster |-> cluster]
       ELSE IF targets = {} THEN [status |-> 404, cluster |-> cluster]
       ELSE LET o == CHOOSE t \in targets : TRUE
                r == ApplyJsonPatch(cluster[o], request.body)
            IN IF r.ok THEN [status |-> 200,
                             cluster |-> [cluster EXCEPT ![o] = r.annotations]]
               ELSE [status |-> 422, cluster |-> cluster]


-----------------------------------------------------------------------------
(* checkAllResources: what the loop body does with one listed resource *)

\* a check that takes any reconcile value for a suspension
Suspended_AnyValue(ann) == RECONCILE_ANNOTATION \in DOMAIN ann

\* a check that only takes reconcile "enabled" for no suspension
Suspended_UnlessEnabled(ann) == Get(ann, RECONCILE_ANNOTATION) # "enabled"

\* "Ignore non-suspended resources"
Suspended(ann) == Get(ann, RECONCILE_ANNOTATION) = "disabled"

\* a handler that forgets to reset hasTimeout
Timeout_KeepsHasTimeout(ann, clock) ==
    IF SUSPEND_UNTIL_ANNOTATION \notin DOMAIN ann
    THEN [raised |-> "", timedOut |-> FALSE, hasTimeout |-> FALSE, sampled |-> FALSE]
    ELSE LET dt == Isoparse(ann[SUSPEND_UNTIL_ANNOTATION])
         IN IF dt.raised # ""
            THEN [raised |-> IF dt.raised = "ParserError" THEN "" ELSE dt.raised,
                  timedOut |-> FALSE, hasTimeout |-> TRUE, sampled |-> FALSE]
            ELSE LET lt == LessThanNow(dt, clock)
                 IN [raised |-> lt.raised, timedOut |-> lt.value, hasTimeout |-> TRUE,
                     sampled |-> TRUE]

\* the try/except around the timestamp: timedOut and hasTimeout, or the
\* exception that leaves the loop; only ParserError is caught. "sampled"
\* is whether datetime.now() was called, which is once isoparse has returned
Timeout(ann, clock) ==
    IF SUSPEND_UNTIL_ANNOTATION \notin DOMAIN ann
    THEN [raised |-> "", timedOut |-> FALSE, hasTimeout |-> FALSE, sampled |-> FALSE]
    ELSE LET dt == Isoparse(ann[SUSPEND_UNTIL_ANNOTATION])
         IN IF dt.raised = "ParserError"
            THEN [raised |-> "", timedOut |-> FALSE, hasTimeout |-> FALSE,
                  sampled |-> FALSE]
            ELSE IF dt.raised # ""
            THEN [raised |-> dt.raised, timedOut |-> FALSE, hasTimeout |-> TRUE,
                  sampled |-> FALSE]
            ELSE LET lt == LessThanNow(dt, clock)
                 IN [raised |-> lt.raised, timedOut |-> lt.value, hasTimeout |-> TRUE,
                     sampled |-> TRUE]

\* a key list that leaves the owner annotation out
RemoveAnnotations_NoOwner(hasOwner) ==
    <<RECONCILE_ANNOTATION, SUSPEND_UNTIL_ANNOTATION>>

\* a key list that leaves the reconcile annotation in place
RemoveAnnotations_KeepReconcile(hasOwner) ==
    <<SUSPEND_UNTIL_ANNOTATION>>
    \o (IF hasOwner THEN <<SUSPENDED_BY_ANNOTATION>> ELSE <<>>)

\* a key list that names an annotation of somebody else too
RemoveAnnotations_AndOther(hasOwner) ==
    <<RECONCILE_ANNOTATION, SUSPEND_UNTIL_ANNOTATION, OTHER_ANNOTATION>>
    \o (IF hasOwner THEN <<SUSPENDED_BY_ANNOTATION>> ELSE <<>>)

\* removeAnnotations
RemoveAnnotations(hasOwner) ==
    <<RECONCILE_ANNOTATION, SUSPEND_UNTIL_ANNOTATION>>
    \o (IF hasOwner THEN <<SUSPENDED_BY_ANNOTATION>> ELSE <<>>)

\* the Prometheus labels of a resource
Labels(group, version, kind, namespaced, meta) ==
    << <<group, "/", version>>, kind, IF namespaced THEN meta.namespace ELSE "", meta.name >>

\* the verdict on one resource: "continue" (not suspended), "raise",
\* "remove" (timed out) or "yield" (reported)
Verdict(ann, clock) ==
    IF ~Suspended(ann) THEN [act |-> "continue", sampled |-> FALSE]
    ELSE LET to == Timeout(ann, clock)
             hasOwner == SUSPENDED_BY_ANNOTATION \in DOMAIN ann
         IN IF to.raised # ""
            THEN [act |-> "raise", sampled |-> to.sampled, raised |-> to.raised]
            ELSE IF to.timedOut
            THEN [act |-> "remove", sampled |-> to.sampled,
                  keys |-> RemoveAnnotations(hasOwner)]
            ELSE [act |-> "yield", sampled |-> to.sampled,
                  hasTimeout |-> to.hasTimeout, hasOwner |-> hasOwner]

-----------------------------------------------------------------------------
(* The frame of one collect() call *)

\* gauge families that outlive the call: a frame that starts with the
\* families last published
IdleFrame_KeepsGauges(n) ==
    LET last == IF scrapes = <<>> THEN [gAll |-> <<>>, gUnowned |-> <<>>,
                                       gIndefinite |-> <<>>]
                ELSE scrapes[Len(scrapes)]
    IN [pc |-> "idle", n |-> n,
        api |-> <<"", "v1">>, discovered |-> FALSE, rest |-> <<>>,
        kinds |-> <<>>, ki |-> 0, items |-> <<>>, ii |-> 0,
        gAll |-> last.gAll, gUnowned |-> last.gUnowned,
        gIndefinite |-> last.gIndefinite,
        evaluated |-> <<>>, requests |-> <<>>]

\* getGauges: the frame a collect() call starts with
IdleFrame(n) ==
    [pc |-> "idle", n |-> n,
     api |-> <<"", "v1">>, discovered |-> FALSE, rest |-> <<>>,
     kinds |-> <<>>, ki |-> 0, items |-> <<>>, ii |-> 0,
     gAll |-> <<>>, gUnowned |-> <<>>, gIndefinite |-> <<>>,
     evaluated |-> <<>>, requests |-> <<>>]

\* a filter that only skips the kinds without verbs
Listable_AnyVerb(k) == k.verbs # {}

\* a loop over the kinds that does not move on from the kind it listed
NextKind_SameKindAgain(f) ==
    LET later == {k \in (IF f.ki = 0 THEN 1 ELSE f.ki)..Len(f.kinds) :
                    f.kinds[k].verbs # {} /\ "list" \in f.kinds[k].verbs}
    IN IF later = {}
       THEN [f EXCEPT !.pc = "yield"]
       ELSE [f EXCEPT !.pc = "items", !.items = <<>>, !.ii = 0,
                      !.ki = CHOOSE k \in later : \A j \in later : k <= j]

\* "if not verbs or 'list' not in verbs: continue"
Listable(k) == k.verbs # {} /\ "list" \in k.verbs

\* getAllAPIs resumed: the group discovery call if it was not made yet, else
\* the next discovered group, else the end of the enumeration
NextApi(f) ==
    IF ~f.discovered THEN [f EXCEPT !.pc = "apis"]
    ELSE IF f.rest = <<>> THEN [f EXCEPT !.pc = "yield"]
    ELSE [f EXCEPT !.pc = "kinds",
                   !.api = <<Head(f.rest).name, Head(f.rest).preferred_version>>,
                   !.rest = Tail(f.rest)]

\* getAllResources resumed after kind f.ki: the next kind that supports
\* "list", else the next API
NextKind(f) ==
    LET later == {k \in (f.ki + 1)..Len(f.kinds) : Listable(f.kinds[k])}
    IN IF later = {}
       THEN NextApi([f EXCEPT !.kinds = <<>>, !.ki = 0, !.items = <<>>, !.ii = 0])
       ELSE [f EXCEPT !.pc = "items", !.items = <<>>, !.ii = 0,
                      !.ki = CHOOSE k \in later : \A j \in later : k <= j]

\* the loop of checkAllResources resumed after item f.ii
NextItem(f) ==
    IF f.ii < Len(f.items) THEN [f EXCEPT !.pc = "check", !.ii = f.ii + 1]
    ELSE NextKind(f)

\* what the caller of collect() gets
Returned(w, f) ==
    [w |-> w, n |-> f.n, ok |-> TRUE, raised |-> "", where |-> "", at |-> "",
     gAll |-> f.gAll, gUnowned |-> f.gUnowned, gIndefinite |-> f.gIndefinite,
     evaluated |-> f.evaluated, requests |-> f.requests]

\* a collect() that hands out what it has gathered when it fails
Raised_PartialGauges(w, f, exc, where, at) ==
    [w |-> w, n |-> f.n, ok |-> FALSE, raised |-> exc, where |-> where, at |-> at,
     gAll |-> f.gAll, gUnowned |-> f.gUnowned, gIndefinite |-> f.gIndefinite,
     evaluated |-> f.evaluated, requests |-> f.requests]

\* an exception leaves collect() before any gauge family is yielded;
\* "where" is the function that raised and "at" the resource it was at
Raised(w, f, exc, where, at) ==
    [w |-> w, n |-> f.n, ok |-> FALSE, raised |-> exc, where |-> where, at |-> at,
     gAll |-> <<>>, gUnowned |-> <<>>, gIndefinite |-> <<>>,
     evaluated |-> f.evaluated, requests |-> f.requests]


-----------------------------------------------------------------------------
(* Actions *)

\* an exception propagates out of the generators and out of collect(),
\* whose frame was f
Abort(w, f, exc, where, at) ==
    /\ scrapes' = Append(scrapes, Raised(w, f, exc, where, at))
    /\ sweep' = [sweep EXCEPT ![w] = IdleFrame(@.n)]

\* a scrape calls collect(): fresh gauge families, and the enumeration
\* starts with the core API ('', 'v1')
Collect(w) ==
    /\ sweep[w].pc = "idle"
    /\ budget > 0
    /\ budget' = budget - 1
    /\ sweep' = [sweep EXCEPT ![w] = [IdleFrame(@.n + 1) EXCEPT !.pc = "kinds"]]
    /\ UNCHANGED <<annotations, now, calls, scrapes>>

\* getAllAPIs after the core API: the API groups of the server
GetAllAPIs(w) ==
    /\ sweep[w].pc = "apis"
    /\ LET f == [sweep[w] EXCEPT !.requests = Append(@, GroupsEndpoint)]
       IN \E up \in BOOLEAN :
            IF up
            THEN /\ sweep' = [sweep EXCEPT ![w] =
                        NextApi([f EXCEPT !.discovered = TRUE, !.rest = APIGroups])]
                 /\ UNCHANGED scrapes
            ELSE Abort(w, f, "ApiException", "getAllAPIs", "")
    /\ UNCHANGED <<annotations, now, calls, budget>>

\* getAllResourceKindsInAPI: the kinds of the current API, "assert status == 200"
GetAllResourceKindsInAPI(w) ==
    /\ sweep[w].pc = "kinds"
    /\ LET f == [sweep[w] EXCEPT
                    !.requests = Append(@, KindsEndpoint(sweep[w].api[1], sweep[w].api[2]))]
       IN \E up \in BOOLEAN :
            IF up
            THEN /\ sweep' = [sweep EXCEPT ![w] =
                        NextKind([f EXCEPT !.kinds = APIResources(f.api[1]), !.ki = 0])]
                 /\ UNCHANGED scrapes
            ELSE Abort(w, f, "AssertionError", "getAllResourceKindsInAPI", "")
    /\ UNCHANGED <<annotations, now, calls, budget>>

\* getAllResourcesInAPI: the objects of the current kind as they are at
\* the time of the call, "assert status == 200"
GetAllResourcesInAPI(w) ==
    /\ sweep[w].pc = "items"
    /\ \E up \in BOOLEAN :
        IF up
        THEN LET f == sweep[w]
                 objs == ObjectsOf(f.api[1], f.kinds[f.ki].name)
                 items == [i \in 1..Len(objs) |-> Item(objs[i], annotations[objs[i]])]
             IN /\ sweep' = [sweep EXCEPT ![w] =
                        NextItem([f EXCEPT !.items = items, !.ii = 0,
                                    !.requests = Append(@,
                                        ItemsEndpoint(f.api[1], f.api[2], f.kinds[f.ki].name))])]
                /\ UNCHANGED scrapes
        ELSE Abort(w, [sweep[w] EXCEPT !.requests = Append(@,
                            ItemsEndpoint(sweep[w].api[1], sweep[w].api[2],
                                          sweep[w].kinds[sweep[w].ki].name))],
                   "AssertionError", "getAllResourcesInAPI", "")
    /\ UNCHANGED <<annotations, now, calls, budget>>

\* one iteration of the loops of checkAllResources and collect: classify
\* the resource, remove its annotations if timed out, else report it; the
\* frame keeps what it evaluated, as it keeps the GET requests it sent
CheckAllResources(w) ==
    /\ sweep[w].pc = "check"
    /\ LET f == sweep[w]
           kind == f.kinds[f.ki]
           meta == f.items[f.ii].metadata
           ann == meta.annotations
           namespace == IF kind.namespaced THEN meta.namespace ELSE ""
           v == Verdict(ann, now)
           \* "at" is the clock value the evaluation sampled, 0 if it read no clock
           g == [f EXCEPT !.evaluated =
                    Append(@, [name |-> meta.name, annotations |-> ann,
                               at |-> IF v.sampled THEN now ELSE 0])]
       IN CASE v.act = "continue" ->
                /\ sweep' = [sweep EXCEPT ![w] = NextItem(g)]
                /\ UNCHANGED <<annotations, calls, scrapes>>
            [] v.act = "raise" ->
                /\ scrapes' = Append(scrapes,
                        Raised(w, g, v.raised, "checkAllResources", meta.name))
                /\ sweep' = [sweep EXCEPT ![w] = IdleFrame(f.n)]
                /\ UNCHANGED <<annotations, calls>>
            [] v.act = "remove" ->
                \E up \in BOOLEAN :
                    LET request == RemoveRequest(f.api[1], f.api[2], kind.name,
                                                 namespace, meta.name, v.keys)
                        answer == ServePatch(annotations, request, up)
                    IN /\ annotations' = answer.cluster
                       /\ calls' = Append(calls,
                            [w |-> w, n |-> f.n, name |-> meta.name, keys |-> v.keys,
                             request |-> request, status |-> answer.status,
                             before |-> annotations[meta.name]])
                       /\ IF answer.status = 200
                          THEN /\ sweep' = [sweep EXCEPT ![w] = NextItem(g)]
                               /\ UNCHANGED scrapes
                          ELSE /\ scrapes' = Append(scrapes,
                                    Raised(w, g, "AssertionError",
                                           "removeResourceAnnotation", meta.name))
                               /\ sweep' = [sweep EXCEPT ![w] = IdleFrame(f.n)]
            [] v.act = "yield" ->
                LET labels == Labels(f.api[1], f.api[2], kind.kind, kind.namespaced, meta)
                IN /\ sweep' = [sweep EXCEPT ![w] = NextItem(
                        [g EXCEPT
                            !.gAll = Append(@, [labels |-> labels, value |-> 1]),
                            !.gUnowned = Append(@, [labels |-> labels,
                                value |-> IF v.hasOwner THEN 0 ELSE 1]),
                            !.gIndefinite = Append(@, [labels |-> labels,
                                value |-> IF v.hasTimeout THEN 0 ELSE 1])])]
                   /\ UNCHANGED <<annotations, calls, scrapes>>
    /\ UNCHANGED <<now, budget>>

\* the end of collect(): the three gauge families are yielded
Yield(w) ==
    /\ sweep[w].pc = "yield"
    /\ scrapes' = Append(scrapes, Returned(w, sweep[w]))
    /\ sweep' = [sweep EXCEPT ![w] = IdleFrame(@.n)]
    /\ UNCHANGED <<annotations, now, calls, budget>>

\* time passes
Tick ==
    /\ now < MaxClock
    /\ now' = now + 1
    /\ UNCHANGED <<annotations, sweep, calls, scrapes, budget>>

\* removeResourceAnnotation called on its own for one annotation of object o,
\* once; an AssertionError is the caller's to handle
RemoveResourceAnnotation(o) ==
    /\ calls = <<>>
    /\ \E key \in DOMAIN annotations[o] : \E up \in BOOLEAN :
        LET request == RemoveRequest(ObjectInfo(o).group, ObjectInfo(o).version,
                                     ObjectInfo(o).plural, ObjectInfo(o).namespace,
                                     o, <<key>>)
            answer == ServePatch(annotations, request, up)
        IN /\ annotations' = answer.cluster
           /\ calls' = Append(calls,
                [w |-> "w1", n |-> 0, name |-> o, keys |-> <<key>>,
                 request |-> request, status |-> answer.status,
                 before |-> annotations[o]])
    /\ UNCHANGED <<now, sweep, scrapes, budget>>

\* somebody else writes the annotations the sweep reads: an operator suspends
\* object o until t, or moves the end of its suspension to t; the resource
\* keeps its other annotations
ExternalSuspend(o, t) ==
    /\ annotations' = [annotations EXCEPT ![o] =
            [k \in DOMAIN @ \cup {RECONCILE_ANNOTATION, SUSPEND_UNTIL_ANNOTATION} |->
                IF k = RECONCILE_ANNOTATION THEN "disabled"
                ELSE IF k = SUSPEND_UNTIL_ANNOTATION THEN [form |-> "naive", t |-> t]
                ELSE @[k]]]
    /\ annotations' # annotations
    /\ UNCHANGED <<now, sweep, calls, scrapes, budget>>

-----------------------------------------------------------------------------
(* Specifications *)

\* the annotation sets that matter when sweeps race: a suspension that has
\* timed out, with and without owner, one that has not, and no suspension
RaceProfiles(other) ==
    {MkAnnotations("disabled", [form |-> "naive", t |-> 1], b, other) :
        b \in {Absent, "alice"}}
    \cup {MkAnnotations("disabled", [form |-> "naive", t |-> 3], Absent, other),
          MkAnnotations(Absent, [form |-> "naive", t |-> 1], "alice", other)}

\* the cluster before the first scrape, once the annotations are chosen:
\* "bind" is of a kind that cannot be listed and carries a suspension that
\* has timed out, "myapp" carries the other annotation and "demo" does not
InitCluster ==
    /\ annotations["bind"] = MkAnnotations("disabled", [form |-> "naive", t |-> 1],
                                           "alice", Absent)
    /\ OTHER_ANNOTATION \notin DOMAIN annotations["demo"]
    /\ OTHER_ANNOTATION \in DOMAIN annotations["myapp"]
    /\ now = 2
    /\ calls = <<>>
    /\ scrapes = <<>>

\* one worker serving scrapes one after the other: the resource it comes
\* to first carries any of the annotation sets, the one it comes to last
\* one of those that matter when it is not alone
Init ==
    /\ annotations \in [Objects -> Profiles(Absent) \cup RaceProfiles("myapp")]
    /\ InitCluster
    /\ sweep = [w \in {"w1"} |-> IdleFrame(0)]
    /\ budget = MaxSweeps

\* the workers of gunicorn-config.py serving scrapes at the same time;
\* "myapp" starts with a suspension that has timed out
InitConc ==
    /\ annotations \in [Objects -> RaceProfiles(Absent) \cup RaceProfiles("myapp")]
    /\ SUSPENDED_BY_ANNOTATION \in DOMAIN annotations["myapp"]
    /\ RECONCILE_ANNOTATION \in DOMAIN annotations["myapp"]
    /\ InitCluster
    /\ sweep = [w \in Sweepers |-> IdleFrame(0)]
    /\ budget = MaxConcSweeps

\* the characters of annotation keys: the two that JSON Pointer escapes, the
\* two digits of the escapes, and one for all the others
Alphabet == {"~", "/", "0", "1", "a"}

\* the keys of up to MaxKeyLen characters
Keys == UNION {[1..n -> Alphabet] : n \in 1..MaxKeyLen}

\* removeResourceAnnotation on its own: a cluster in which every object
\* carries one annotation, under any key
InitEscape ==
    /\ \E key \in Keys : annotations = [o \in Objects |-> [k \in {key} |-> "x"]]
    /\ now = 2
    /\ calls = <<>>
    /\ scrapes = <<>>
    /\ sweep = [w \in {"w1"} |-> IdleFrame(0)]
    /\ budget = 0

NextEscape == \E o \in Objects : RemoveResourceAnnotation(o)

SpecEscape == InitEscape /\ [][NextEscape]_vars

Next ==
    \/ Tick
    \/ \E w \in DOMAIN sweep : Collect(w)
    \/ \E w \in DOMAIN sweep : GetAllAPIs(w)
    \/ \E w \in DOMAIN sweep : GetAllResourceKindsInAPI(w)
    \/ \E w \in DOMAIN sweep : GetAllResourcesInAPI(w)
    \/ \E w \in DOMAIN sweep : CheckAllResources(w)
    \/ \E w \in DOMAIN sweep : Yield(w)

Spec == Init /\ [][Next]_vars

\* one worker, and the operators who set and extend suspensions while it
\* sweeps
InitExt ==
    /\ annotations \in [Objects -> RaceProfiles(Absent) \cup RaceProfiles("myapp")]
    /\ InitCluster
    /\ sweep = [w \in {"w1"} |-> IdleFrame(0)]
    /\ budget = MaxSoloSweeps

NextExt ==
    \/ Next
    \/ \E o \in Objects : \E t \in Timestamps : ExternalSuspend(o, t)

SpecExt == InitExt /\ [][NextExt]_vars

SpecConc == InitConc /\ [][Next]_vars

\* the next statement of the collect() call of worker w
SweepStep(w) ==
    /\ w \in DOMAIN sweep
    /\ \/ GetAllAPIs(w)
       \/ GetAllResourceKindsInAPI(w)
       \/ GetAllResourcesInAPI(w)
       \/ CheckAllResources(w)
       \/ Yield(w)

\* one worker and a cluster whose resources are timed out, suspended until
\* later, not suspended, or carry a suspend-until that does not parse
InitLive ==
    /\ annotations \in [Objects -> RaceProfiles(Absent) \cup RaceProfiles("myapp")
                            \cup {MkAnnotations("disabled",
                                    [form |-> "malformed", raises |-> "ValueError"],
                                    Absent, Absent)}]
    /\ InitCluster
    /\ sweep = [w \in {"w1"} |-> IdleFrame(0)]
    /\ budget = MaxSoloSweeps

\* a collect() call that was started keeps running, and every remote call
\* it makes returns
SpecLive == InitLive /\ [][Next]_vars /\ \A w \in Sweepers : WF_vars(SweepStep(w))


-----------------------------------------------------------------------------
(* Vocabulary of the properties *)

Range(s) == {s[i] : i \in DOMAIN s}

\* the kind name the discovery document gives for the plural of object o
KindOf(o) ==
    LET kinds == APIResources(ObjectInfo(o).group)
    IN (CHOOSE k \in Range(kinds) : k.name = ObjectInfo(o).plural).kind

\* the label tuple (apiVersion, kind, namespace, name) of every object
ObjectLabelTable ==
    [o \in Objects |->
        << <<ObjectInfo(o).group, "/", ObjectInfo(o).version>>, KindOf(o),
           ObjectInfo(o).namespace, o >>]

ObjectLabels(o) == ObjectLabelTable[o]

\* the values a gauge family carries for object o, one per sample
Samples(g, o) == {i \in DOMAIN g : g[i].labels = ObjectLabels(o)}

Reported(g, o) == Samples(g, o) # {}

\* exactly one sample for o, with value v
ReportedAs(g, o, v) ==
    /\ Cardinality(Samples(g, o)) = 1
    /\ \A i \in Samples(g, o) : g[i].value = v

\* the removal calls that the collect() call behind scrape s issued for o
CallsOf(s, o) ==
    {i \in DOMAIN calls : calls[i].w = s.w /\ calls[i].n = s.n /\ calls[i].name = o}

\* the keys a removal call names, as the server reads them from the paths
NamedKeys(c) == [i \in DOMAIN c.request.body |-> TargetKey(c.request.body[i])]

\* the reconcile annotation is exactly "disabled"
Disabled(ann) ==
    /\ RECONCILE_ANNOTATION \in DOMAIN ann
    /\ ann[RECONCILE_ANNOTATION] = "disabled"

HasUntil(ann) == SUSPEND_UNTIL_ANNOTATION \in DOMAIN ann

\* the suspend-until of a listed resource is a valid timestamp that the
\* program can compare with its clock
ValidUntil(ann) == HasUntil(ann) /\ ann[SUSPEND_UNTIL_ANNOTATION].form = "naive"

\* the suspend-until of a listed resource is text that does not parse
MalformedUntil(ann) == HasUntil(ann) /\ ann[SUSPEND_UNTIL_ANNOTATION].form = "malformed"

\* e, an entry of a sweep's "evaluated", was suspended with a suspend-until
\* strictly before the clock when the sweep evaluated it
TimedOutWhenEvaluated(e) ==
    /\ Disabled(e.annotations)
    /\ ValidUntil(e.annotations)
    /\ e.annotations[SUSPEND_UNTIL_ANNOTATION].t < e.at

-----------------------------------------------------------------------------
(* Properties *)

\* C1: after a sweep that ran to completion, every resource the sweep listed
\* with reconcile "disabled" and a valid suspend-until strictly in the past
\* has lost the reconcile and suspend-until annotations, is in none of the
\* three gauge families, and got exactly one removal call from that sweep,
\* sent to its URL and naming the reconcile and suspend-until keys, plus the
\* suspended-by key iff the resource carried it.
C1_TimedOutIsCleared ==
    \A s \in Range(scrapes) : \A e \in Range(s.evaluated) :
        (s.ok /\ TimedOutWhenEvaluated(e)) =>
            /\ RECONCILE_ANNOTATION \notin DOMAIN annotations[e.name]
            /\ SUSPEND_UNTIL_ANNOTATION \notin DOMAIN annotations[e.name]
            /\ ~Reported(s.gAll, e.name)
            /\ ~Reported(s.gUnowned, e.name)
            /\ ~Reported(s.gIndefinite, e.name)
            /\ Cardinality(CallsOf(s, e.name)) = 1
            /\ \A i \in CallsOf(s, e.name) :
                /\ calls[i].request.endpoint = ObjectPath(e.name)
                /\ NamedKeys(calls[i]) =
                     <<RECONCILE_ANNOTATION, SUSPEND_UNTIL_ANNOTATION>>
                     \o (IF SUSPENDED_BY_ANNOTATION \in DOMAIN e.annotations
                         THEN <<SUSPENDED_BY_ANNOTATION>> ELSE <<>>)

\* a completed sweep cleared a timed-out resource that had an owner and one
\* that had none
C1_Witness ==
    \E s \in Range(scrapes) : \E e1, e2 \in Range(s.evaluated) :
        /\ s.ok
        /\ TimedOutWhenEvaluated(e1) /\ TimedOutWhenEvaluated(e2)
        /\ SUSPENDED_BY_ANNOTATION \in DOMAIN e1.annotations
        /\ SUSPENDED_BY_ANNOTATION \notin DOMAIN e2.annotations
        /\ RECONCILE_ANNOTATION \notin DOMAIN annotations[e1.name]
        /\ RECONCILE_ANNOTATION \notin DOMAIN annotations[e2.name]

\* C2: in every sweep, running or ended, a resource listed with the
\* reconcile annotation absent or different from "disabled" is in none of
\* the three gauge families, whatever its other annotations are.
C2_OnlyDisabledIsReported ==
    /\ \A w \in DOMAIN sweep : \A e \in Range(sweep[w].evaluated) :
        ~Disabled(e.annotations) =>
            /\ ~Reported(sweep[w].gAll, e.name)
            /\ ~Reported(sweep[w].gUnowned, e.name)
            /\ ~Reported(sweep[w].gIndefinite, e.name)
    /\ \A s \in Range(scrapes) : \A e \in Range(s.evaluated) :
        ~Disabled(e.annotations) =>
            /\ ~Reported(s.gAll, e.name)
            /\ ~Reported(s.gUnowned, e.name)
            /\ ~Reported(s.gIndefinite, e.name)

\* a completed sweep reported one resource and left out another whose
\* reconcile annotation is "enabled" and which carries both other annotations
C2_Witness ==
    \E s \in Range(scrapes) : \E e \in Range(s.evaluated) :
        /\ s.ok
        /\ s.gAll # <<>>
        /\ RECONCILE_ANNOTATION \in DOMAIN e.annotations
        /\ e.annotations[RECONCILE_ANNOTATION] = "enabled"
        /\ HasUntil(e.annotations)
        /\ SUSPENDED_BY_ANNOTATION \in DOMAIN e.annotations
        /\ ~Reported(s.gAll, e.name)


\* C3: a removal patch that returns a failure status does not abort the
\* sweep that issued it: the sweep runs to its end, publishes its gauges and
\* reports the resource whose patch failed with flux_suspended_resources 1,
\* and it sends no second patch for the resource.
C3_PatchFailureDoesNotAbort ==
    \A s \in Range(scrapes) : \A c \in Range(calls) :
        (c.w = s.w /\ c.n = s.n /\ c.status # 200) =>
            /\ s.ok
            /\ ReportedAs(s.gAll, c.name, 1)
            /\ Cardinality(CallsOf(s, c.name)) = 1

\* C4: when two sweeps running at the same time both send the removal patch
\* for one resource, the sweep whose patch arrives second, and is rejected
\* because the annotations are already gone, is not aborted by it.
C4_LostRaceDoesNotAbort ==
    \A s \in Range(scrapes) : \A c \in Range(calls) :
        (/\ c.w = s.w /\ c.n = s.n
         /\ c.status # 200
         /\ RECONCILE_ANNOTATION \notin DOMAIN c.before
         /\ \E d \in Range(calls) : d.name = c.name /\ d.w # c.w /\ d.status = 200)
        => s.ok

\* C5: a failed listing of the instances of one kind does not abort the
\* sweep: no collect() call ends with the exception of getAllResourcesInAPI.
C5_ListFailureDoesNotAbort ==
    \A s \in Range(scrapes) : ~(~s.ok /\ s.where = "getAllResourcesInAPI")

\* C6: a suspend-until that fails to parse, or to compare with the clock,
\* does not stop the sweep: no collect() call ends with an exception raised
\* while a resource is classified, and a sweep that ran to its end sent no
\* removal call for such a resource and reports it as indefinite.
C6_BadTimestampDoesNotStop ==
    \A s \in Range(scrapes) :
        /\ ~(~s.ok /\ s.where = "checkAllResources")
        /\ \A e \in Range(s.evaluated) :
            (s.ok /\ Disabled(e.annotations) /\ HasUntil(e.annotations)
                  /\ ~ValidUntil(e.annotations)) =>
                /\ CallsOf(s, e.name) = {}
                /\ ReportedAs(s.gIndefinite, e.name, 1)

\* C7: a resource with reconcile "disabled" whose suspend-until is absent
\* or does not parse is, once the sweep is through with it, reported with
\* flux_suspended_resources 1 and flux_suspended_resources_indefinite 1, has
\* got no removal call and has its annotations unchanged. The sweep is
\* through with the resource when it ran to its end or ended at the resource.
C7_IndefiniteIsReported ==
    \A s \in Range(scrapes) : \A e \in Range(s.evaluated) :
        (/\ Disabled(e.annotations)
         /\ ~HasUntil(e.annotations) \/ MalformedUntil(e.annotations)
         /\ s.ok \/ s.at = e.name) =>
            /\ ReportedAs(s.gAll, e.name, 1)
            /\ ReportedAs(s.gIndefinite, e.name, 1)
            /\ CallsOf(s, e.name) = {}
            /\ annotations[e.name] = e.annotations

\* C8: after a sweep that ran to completion, every resource the sweep listed
\* with reconcile "disabled", a valid suspend-until strictly after the clock
\* at its evaluation and no suspended-by has exactly one sample in each
\* family, flux_suspended_resources 1, flux_suspended_resources_unowned 1
\* and flux_suspended_resources_indefinite 0, and got no removal call.
C8_FutureUnownedIsReported ==
    \A s \in Range(scrapes) : \A e \in Range(s.evaluated) :
        (/\ s.ok
         /\ Disabled(e.annotations)
         /\ ValidUntil(e.annotations)
         /\ e.annotations[SUSPEND_UNTIL_ANNOTATION].t > e.at
         /\ SUSPENDED_BY_ANNOTATION \notin DOMAIN e.annotations) =>
            /\ ReportedAs(s.gAll, e.name, 1)
            /\ ReportedAs(s.gUnowned, e.name, 1)
            /\ ReportedAs(s.gIndefinite, e.name, 0)
            /\ CallsOf(s, e.name) = {}

\* a completed sweep evaluated such a resource and reported it
C8_Witness ==
    \E s \in Range(scrapes) : \E e \in Range(s.evaluated) :
        /\ s.ok
        /\ Disabled(e.annotations)
        /\ ValidUntil(e.annotations)
        /\ e.annotations[SUSPEND_UNTIL_ANNOTATION].t > e.at
        /\ SUSPENDED_BY_ANNOTATION \notin DOMAIN e.annotations
        /\ ReportedAs(s.gUnowned, e.name, 1)


\* C9: removal happens exactly once per timeout event: over any sweeps, one
\* after the other or at the same time, the API server gets no more than
\* one removal call for a resource, and no removal call reaches a resource
\* that no longer carries the suspension annotations. A call lost to a
\* transport failure is not counted, and no object of the model is suspended
\* again, so each has at most one timeout event.
C9_RemovedExactlyOnce ==
    LET received == {i \in DOMAIN calls : calls[i].status # 500}
    IN /\ \A i, j \in received : calls[i].name = calls[j].name => i = j
       /\ \A i \in received :
            /\ RECONCILE_ANNOTATION \in DOMAIN calls[i].before
            /\ SUSPEND_UNTIL_ANNOTATION \in DOMAIN calls[i].before

\* what collect() call n of worker w has evaluated so far
EvaluatedBy(w, n) ==
    IF \E s \in Range(scrapes) : s.w = w /\ s.n = n
    THEN (CHOOSE s \in Range(scrapes) : s.w = w /\ s.n = n).evaluated
    ELSE sweep[w].evaluated

\* C9 as amended: a sweep sends at most one removal call for a resource, and
\* only for a resource it listed as timed out; at most one call for a
\* resource succeeds; and a call reaches a resource that no longer carries
\* the suspension annotations only when the sweep of another worker, running
\* at the same time, had its call for the resource succeed first. So when
\* sweeps do not overlap, every call reaches a resource that still carries
\* the annotations, and none is sent after a call succeeded.
C9_RemovedOncePerSweep ==
    /\ \A i, j \in DOMAIN calls :
        (i < j /\ calls[i].name = calls[j].name) =>
            /\ ~(calls[i].w = calls[j].w /\ calls[i].n = calls[j].n)
            /\ ~(calls[i].status = 200 /\ calls[j].status = 200)
            /\ calls[i].w = calls[j].w => calls[i].status # 200
    /\ \A c \in Range(calls) :
        \E e \in Range(EvaluatedBy(c.w, c.n)) :
            e.name = c.name /\ TimedOutWhenEvaluated(e)
    /\ \A j \in DOMAIN calls :
        ~(Disabled(calls[j].before) /\ HasUntil(calls[j].before)) =>
            \E i \in 1..(j - 1) :
                /\ calls[i].name = calls[j].name
                /\ calls[i].w # calls[j].w
                /\ calls[i].status = 200

\* two sweeps raced for a resource: the call of one succeeded and the call
\* of the other was rejected
C9_Witness ==
    \E i, j \in DOMAIN calls :
        /\ i < j
        /\ calls[i].name = calls[j].name
        /\ calls[i].w # calls[j].w
        /\ calls[i].status = 200
        /\ calls[j].status = 422

\* between two sweeps no suspend-until passed: every resource both sweeps
\* evaluated, and the second found suspended with a valid suspend-until, was
\* on the same side of the clock at both evaluations
NoExpiryBetween(s1, s2) ==
    \A e1 \in Range(s1.evaluated) : \A e2 \in Range(s2.evaluated) :
        (e1.name = e2.name /\ Disabled(e2.annotations) /\ ValidUntil(e2.annotations)) =>
            LET t == e2.annotations[SUSPEND_UNTIL_ANNOTATION].t
            IN (t < e1.at) <=> (t < e2.at)

\* C10: two sweeps in succession that both ran to completion, with no
\* suspend-until passing between them, yield the same three gauge families;
\* a resource that was timed out in the first sweep is in no family of the
\* second, and the second sweep sends no removal call.
C10_SecondSweepSameGauges ==
    \A i \in DOMAIN scrapes : \A j \in DOMAIN scrapes :
        LET s1 == scrapes[i]
            s2 == scrapes[j]
        IN (j = i + 1 /\ s1.ok /\ s2.ok /\ NoExpiryBetween(s1, s2)) =>
            /\ s2.gAll = s1.gAll
            /\ s2.gUnowned = s1.gUnowned
            /\ s2.gIndefinite = s1.gIndefinite
            /\ \A e \in Range(s1.evaluated) :
                TimedOutWhenEvaluated(e) =>
                    /\ ~Reported(s2.gAll, e.name)
                    /\ ~Reported(s2.gUnowned, e.name)
                    /\ ~Reported(s2.gIndefinite, e.name)
            /\ \A c \in Range(calls) : ~(c.w = s2.w /\ c.n = s2.n)

\* two completed sweeps in succession: the first cleared one resource and
\* reported another, the clock moved before the second, and no suspend-until
\* passed
C10_Witness ==
    \E i \in DOMAIN scrapes : \E j \in DOMAIN scrapes :
        LET s1 == scrapes[i]
            s2 == scrapes[j]
        IN /\ j = i + 1 /\ s1.ok /\ s2.ok /\ NoExpiryBetween(s1, s2)
           /\ s1.gAll # <<>>
           /\ \E e \in Range(s1.evaluated) : TimedOutWhenEvaluated(e)
           /\ \E e1 \in Range(s1.evaluated) : \E e2 \in Range(s2.evaluated) :
                e1.at < e2.at

\* the three annotations of the suspension protocol
SuspendKeys == {RECONCILE_ANNOTATION, SUSPEND_UNTIL_ANNOTATION, SUSPENDED_BY_ANNOTATION}

\* the annotations d without the keys ks, every other key with its value
Without(d, ks) == [k \in DOMAIN d \ ks |-> d[k]]

\* every removal call names suspension annotations only, goes to the URL of
\* the resource, and is for a resource that its sweep listed, and that the
\* server still holds, with reconcile "disabled" and a suspend-until before
\* the clock the sweep sampled for it
PatchesAreForTimedOut ==
    \A c \in Range(calls) :
        /\ Range(NamedKeys(c)) \subseteq SuspendKeys
        /\ c.request.endpoint = ObjectPath(c.name)
        /\ Disabled(c.before)
        /\ \E e \in Range(EvaluatedBy(c.w, c.n)) :
            /\ e.name = c.name
            /\ e.annotations = c.before
            /\ TimedOutWhenEvaluated(e)

\* a step that changes the annotations of a resource is a removal call that
\* the server accepted for that resource, and it leaves the resource with
\* what it had minus the keys named, which are the reconcile and
\* suspend-until annotations and at most the suspended-by one besides
OnlySuspendAnnotationsGo ==
    /\ DOMAIN annotations' = DOMAIN annotations
    /\ \A o \in DOMAIN annotations :
        annotations'[o] # annotations[o] =>
            /\ Len(calls') = Len(calls) + 1
            /\ LET c == calls'[Len(calls')]
               IN /\ c.name = o
                  /\ c.status = 200
                  /\ {RECONCILE_ANNOTATION, SUSPEND_UNTIL_ANNOTATION}
                        \subseteq Range(NamedKeys(c))
                  /\ Range(NamedKeys(c)) \subseteq SuspendKeys
                  /\ annotations'[o] = Without(annotations[o], Range(NamedKeys(c)))
                  /\ \A p \in DOMAIN annotations :
                        p # o => annotations'[p] = annotations[p]

\* C11: a sweep changes the cluster only by removing the reconcile,
\* suspend-until and suspended-by annotations of resources it classified as
\* timed out: the set of resources never changes, a patched resource keeps
\* every other annotation with its value, and no patch is sent for a
\* resource that is not suspended or whose suspend-until has not passed.
C11_OnlyTimedOutLoseSuspendKeys ==
    []PatchesAreForTimedOut /\ [][OnlySuspendAnnotationsGo]_vars

\* a sweep that ran to completion cleared a resource that carries another
\* annotation, which it still carries, and left alone a resource suspended
\* until a later time
C11_Witness ==
    \E s \in Range(scrapes) : \E c \in Range(calls) : \E e \in Range(s.evaluated) :
        /\ s.ok /\ c.w = s.w /\ c.n = s.n
        /\ c.status = 200
        /\ OTHER_ANNOTATION \in DOMAIN c.before
        /\ annotations[c.name] = Without(c.before, SuspendKeys)
        /\ OTHER_ANNOTATION \in DOMAIN annotations[c.name]
        /\ Disabled(e.annotations) /\ ValidUntil(e.annotations)
        /\ e.annotations[SUSPEND_UNTIL_ANNOTATION].t > e.at
        /\ CallsOf(s, e.name) = {}
        /\ annotations[e.name] = e.annotations

\* the label tuples of a gauge family, in the order of its samples
LabelsOf(g) == [i \in DOMAIN g |-> g[i].labels]

\* C12: in every published snapshot the three gauge families carry the same
\* label tuples, one sample per tuple; flux_suspended_resources has a sample,
\* of value 1, exactly for the resources the sweep listed as suspended and
\* not timed out; flux_suspended_resources_unowned is 1 for such a resource
\* iff it has no suspended-by, else 0; flux_suspended_resources_indefinite is
\* 1 iff its suspend-until is absent or does not parse, else 0.
C12_FamiliesAgree ==
    \A s \in Range(scrapes) :
        s.ok =>
            /\ LabelsOf(s.gUnowned) = LabelsOf(s.gAll)
            /\ LabelsOf(s.gIndefinite) = LabelsOf(s.gAll)
            /\ \A i \in DOMAIN s.gAll :
                /\ s.gAll[i].value = 1
                /\ \E e \in Range(s.evaluated) : s.gAll[i].labels = ObjectLabels(e.name)
                /\ \A j \in DOMAIN s.gAll : s.gAll[j].labels = s.gAll[i].labels => j = i
            /\ \A e \in Range(s.evaluated) :
                /\ Reported(s.gAll, e.name)
                    <=> (Disabled(e.annotations) /\ ~TimedOutWhenEvaluated(e))
                /\ Reported(s.gAll, e.name) =>
                    /\ ReportedAs(s.gUnowned, e.name,
                            IF SUSPENDED_BY_ANNOTATION \in DOMAIN e.annotations
                            THEN 0 ELSE 1)
                    /\ ReportedAs(s.gIndefinite, e.name,
                            IF ~HasUntil(e.annotations) \/ MalformedUntil(e.annotations)
                            THEN 1 ELSE 0)

\* a published snapshot with two resources: one owned whose suspend-until
\* does not parse, one unowned that is suspended until a later time
C12_Witness ==
    \E s \in Range(scrapes) : \E e1, e2 \in Range(s.evaluated) :
        /\ s.ok
        /\ Len(s.gAll) = 2
        /\ MalformedUntil(e1.annotations)
        /\ ReportedAs(s.gUnowned, e1.name, 0)
        /\ ReportedAs(s.gIndefinite, e1.name, 1)
        /\ ValidUntil(e2.annotations)
        /\ ReportedAs(s.gUnowned, e2.name, 1)
        /\ ReportedAs(s.gIndefinite, e2.name, 0)

\* the kinds of a discovery document whose verbs contain "list", in order
ListableKinds(group) == SelectSeq(APIResources(group), LAMBDA k : "list" \in k.verbs)

\* the URL of an API: /api/<version> for the core group, else
\* /apis/<group>/<version>
ApiRoot(group, version) ==
    IF group = "" THEN <<"/", "api", "/", version>>
    ELSE <<"/", "apis", "/", group, "/", version>>

\* the GET requests an API is due: its discovery document, then the list of
\* each of its listable kinds
RequestsFor(group, version) ==
    <<ApiRoot(group, version)>>
    \o [i \in 1..Len(ListableKinds(group)) |->
            ApiRoot(group, version) \o <<"/", ListableKinds(group)[i].name>>]

RECURSIVE GroupRequests(_)
\* the requests due to the discovered groups, each at its preferred version
GroupRequests(groups) ==
    IF groups = <<>> THEN <<>>
    ELSE RequestsFor(Head(groups).name, Head(groups).preferred_version)
         \o GroupRequests(Tail(groups))

\* the requests of a full enumeration: the core API first, then the group
\* discovery, then the groups it returns
ExpectedRequests ==
    RequestsFor("", "v1") \o << <<"/", "apis", "/">> >> \o GroupRequests(APIGroups)

IsPrefix(s, t) == Len(s) <= Len(t) /\ SubSeq(t, 1, Len(s)) = s

\* the objects whose kind supports "list"
ListableObjects ==
    {o \in Objects :
        \E k \in Range(APIResources(ObjectInfo(o).group)) :
            k.name = ObjectInfo(o).plural /\ "list" \in k.verbs}

ObjectListable(o) == o \in ListableObjects

\* C13: every sweep sends its GET requests in the order core API ("", "v1")
\* first, then the group discovery, then each discovered group at its
\* preferred version, and within each API lists exactly the kinds whose verbs
\* contain "list"; a sweep that ran to its end sent all of them. A resource
\* of a kind without "list" is never evaluated, never patched and in no gauge
\* family, though it carries reconcile "disabled" and a suspend-until in the
\* past.
C13_CoreFirstListableOnly ==
    /\ \A w \in DOMAIN sweep : IsPrefix(sweep[w].requests, ExpectedRequests)
    /\ \A s \in Range(scrapes) :
        /\ IsPrefix(s.requests, ExpectedRequests)
        /\ s.ok => s.requests = ExpectedRequests
    /\ \A o \in Objects :
        ~ObjectListable(o) =>
            /\ \A c \in Range(calls) : c.name # o
            /\ \A w \in DOMAIN sweep :
                /\ \A e \in Range(sweep[w].evaluated) : e.name # o
                /\ ~Reported(sweep[w].gAll, o)
            /\ \A s \in Range(scrapes) :
                /\ \A e \in Range(s.evaluated) : e.name # o
                /\ ~Reported(s.gAll, o)
                /\ ~Reported(s.gUnowned, o)
                /\ ~Reported(s.gIndefinite, o)

\* a sweep ran to its end, evaluated the resources of the listable kinds,
\* and the resource of the kind that only supports "create" is still
\* suspended with its suspend-until in the past
C13_Witness ==
    \E s \in Range(scrapes) : \E o \in Objects :
        /\ s.ok
        /\ s.requests = ExpectedRequests
        /\ Len(s.evaluated) = 2
        /\ ~ObjectListable(o)
        /\ Disabled(annotations[o])
        /\ ValidUntil(annotations[o])
        /\ annotations[o][SUSPEND_UNTIL_ANNOTATION].t < now

\* the entries of "evaluated" that a sweep reports: suspended and not timed
\* out when the sweep evaluated them
ReportedEntries(evaluated) ==
    {i \in DOMAIN evaluated :
        Disabled(evaluated[i].annotations) /\ ~TimedOutWhenEvaluated(evaluated[i])}

\* the gauge families hold one sample for each resource that the sweep with
\* this "evaluated" found suspended and not timed out, and nothing else
BuiltFromOwnSweep(evaluated, families) ==
    \A g \in families :
        /\ Len(g) = Cardinality(ReportedEntries(evaluated))
        /\ \A i \in DOMAIN g :
            \E j \in ReportedEntries(evaluated) :
                g[i].labels = ObjectLabels(evaluated[j].name)

\* C14: each collect() call runs one sweep of its own, from the first
\* request to the last, and builds its gauge families from empty: the
\* families of a sweep, running or published, hold exactly the resources
\* that this sweep listed as suspended and not timed out, whatever other
\* sweeps, earlier or at the same time, have reported; a resource that a
\* sweep lists as no longer suspended is in none of its families.
C14_FreshSweepPerCollect ==
    /\ \A w \in DOMAIN sweep :
        BuiltFromOwnSweep(sweep[w].evaluated,
                          {sweep[w].gAll, sweep[w].gUnowned, sweep[w].gIndefinite})
    /\ \A s \in Range(scrapes) :
        s.ok =>
            /\ s.requests = ExpectedRequests
            /\ BuiltFromOwnSweep(s.evaluated, {s.gAll, s.gUnowned, s.gIndefinite})
            /\ \A e \in Range(s.evaluated) :
                ~Disabled(e.annotations) =>
                    /\ ~Reported(s.gAll, e.name)
                    /\ ~Reported(s.gUnowned, e.name)
                    /\ ~Reported(s.gIndefinite, e.name)

\* two collect() calls of different workers overlapped and both published:
\* the first reported a resource before its suspend-until passed, the second
\* then cleared that resource and another one, which the first listed only
\* after that, as no longer suspended; the snapshot of the first holds the
\* one resource, the snapshot of the second holds none
C14_Witness ==
    \E s1, s2 \in Range(scrapes) : \E c \in Range(calls) :
      \E e1, e2 \in Range(s1.evaluated) :
        /\ s1.ok /\ s2.ok /\ s1.w # s2.w
        /\ Len(s1.gAll) = 1 /\ ReportedAs(s1.gAll, e1.name, 1)
        /\ s2.gAll = <<>>
        /\ CallsOf(s2, e1.name) # {}
        /\ c.w = s2.w /\ c.n = s2.n /\ c.status = 200 /\ c.name = e2.name
        /\ e2.annotations = Without(c.before, SuspendKeys)
        /\ ~Reported(s1.gAll, e2.name)

\* the collect() call behind scrape s failed while it listed the API groups
\* or the kinds of an API
DiscoveryFailed(s) ==
    ~s.ok /\ s.where \in {"getAllAPIs", "getAllResourceKindsInAPI"}

\* the requests that ask for the API groups or for the kinds of an API
DiscoveryRequests ==
    { <<"/", "apis", "/">>, ApiRoot("", "v1") }
    \cup {ApiRoot(APIGroups[i].name, APIGroups[i].preferred_version) : i \in DOMAIN APIGroups}

\* C15: a failure while the API groups or the kinds of an API are listed ends
\* the sweep: the exception leaves collect(), the failed request is the last
\* the sweep sent and was sent once, the sweep evaluates and patches nothing
\* after it, and no gauge family is published, whatever the sweep had
\* collected; the removals the sweep applied before the failure stay applied.
C15_DiscoveryFailureIsFatal ==
    /\ \A w \in DOMAIN sweep : \A s \in Range(scrapes) :
        (s.w = w /\ s.n = sweep[w].n) => sweep[w].pc = "idle"
    /\ \A s \in Range(scrapes) :
        DiscoveryFailed(s) =>
            /\ s.raised \in {"ApiException", "AssertionError"}
            /\ s.gAll = <<>> /\ s.gUnowned = <<>> /\ s.gIndefinite = <<>>
            /\ s.requests # <<>>
            /\ s.requests[Len(s.requests)] \in DiscoveryRequests
            /\ \A i \in DOMAIN s.requests :
                s.requests[i] = s.requests[Len(s.requests)] => i = Len(s.requests)
            /\ IsPrefix(s.requests, ExpectedRequests)
            /\ s.requests # ExpectedRequests
            /\ \A c \in Range(calls) :
                (c.w = s.w /\ c.n = s.n) =>
                    /\ \E e \in Range(s.evaluated) : e.name = c.name
                    /\ c.status = 200
                    /\ \A k \in Range(NamedKeys(c)) : k \notin DOMAIN annotations[c.name]

\* one sweep had a resource to report when the listing of the API groups
\* failed, a later one had cleared that resource when the listing of the
\* kinds of a group failed: neither published a gauge family, neither got to
\* the resources of the group, and the resource is still cleared
C15_Witness ==
    \E s1, s2 \in Range(scrapes) : \E e \in Range(s1.evaluated) :
        /\ DiscoveryFailed(s1) /\ s1.where = "getAllAPIs"
        /\ ReportedEntries(s1.evaluated) # {}
        /\ s1.gAll = <<>>
        /\ DiscoveryFailed(s2) /\ s2.where = "getAllResourceKindsInAPI"
        /\ Len(s2.requests) > 1
        /\ CallsOf(s2, e.name) # {}
        /\ RECONCILE_ANNOTATION \notin DOMAIN annotations[e.name]
        /\ \E o \in Objects :
            /\ ObjectListable(o)
            /\ Disabled(annotations[o])
            /\ \A x \in Range(s1.evaluated) \cup Range(s2.evaluated) : x.name # o

\* the part of a removal path after /metadata/annotations/
EscapedKey(op) == SubSeq(op.path, 6, Len(op.path))

\* C16: the annotation key embedded in a removal path round-trips: for every
\* key over "~", "/", "0", "1" and other characters, the path is
\* /metadata/annotations/ followed by an escaped key that contains no "/", so
\* that it is a single segment, and from which the unescape ("~1" to "/",
\* then "~0" to "~") recovers the key; the server that receives the request,
\* to the URL of the resource, removes that annotation and no other.
C16_EscapeRoundTrips ==
    \A c \in Range(calls) : \A i \in DOMAIN c.request.body :
        LET op == c.request.body[i]
        IN /\ SubSeq(op.path, 1, 5) = <<"/", "metadata", "/", "annotations", "/">>
           /\ \A j \in DOMAIN EscapedKey(op) : EscapedKey(op)[j] # "/"
           /\ Unescape(EscapedKey(op)) = c.keys[i]
           /\ Len(SplitPointer(op.path, <<>>)) = 4
           /\ c.status # 500 =>
                /\ c.status = 200
                /\ annotations[c.name] = Without(c.before, {c.keys[i]})

\* a key with "~1" and a "/" in it was escaped, sent and removed
C16_Witness ==
    \E c \in Range(calls) :
        /\ c.keys = << <<"~", "1", "/">> >>
        /\ EscapedKey(c.request.body[1]) = <<"~", "0", "1", "~", "1">>
        /\ c.status = 200
        /\ c.keys[1] \notin DOMAIN annotations[c.name]

\* collect() call n of worker w sent a removal call for object o
Patched(w, n, o) == \E c \in Range(calls) : c.w = w /\ c.n = n /\ c.name = o

\* e was listed as suspended with a suspend-until the program can compare
Timed(e) == Disabled(e.annotations) /\ ValidUntil(e.annotations)

\* of the resources that collect() call n of worker w has evaluated, those
\* suspended with a valid suspend-until got a removal call iff the
\* suspend-until was strictly before the clock sampled for that resource;
\* the clock samples of a sweep do not go back; and two such resources with
\* the same suspend-until got different verdicts only with the clock at or
\* before it for the first and after it for the second
ClassifiedByOwnSample(w, n, evaluated) ==
    /\ \A e \in Range(evaluated) :
        Timed(e) =>
            /\ e.at # 0
            /\ Patched(w, n, e.name) <=> e.annotations[SUSPEND_UNTIL_ANNOTATION].t < e.at
    /\ \A i, j \in DOMAIN evaluated :
        LET e1 == evaluated[i]
            e2 == evaluated[j]
        IN (/\ i < j /\ Timed(e1) /\ Timed(e2)
            /\ e1.annotations[SUSPEND_UNTIL_ANNOTATION]
                    = e2.annotations[SUSPEND_UNTIL_ANNOTATION]) =>
                /\ e1.at <= e2.at
                /\ Patched(w, n, e1.name) # Patched(w, n, e2.name) =>
                    /\ ~Patched(w, n, e1.name)
                    /\ e1.at <= e1.annotations[SUSPEND_UNTIL_ANNOTATION].t
                    /\ e2.annotations[SUSPEND_UNTIL_ANNOTATION].t < e2.at

\* C17: a suspended resource is classified as timed out iff its suspend-until
\* is strictly before the clock sampled when that resource is evaluated. A
\* resource whose suspend-until equals the sample is not timed out: it gets
\* no removal call and a published snapshot has it with
\* flux_suspended_resources 1 and flux_suspended_resources_indefinite 0. Two
\* resources of one sweep with the same suspend-until get different verdicts
\* only if the clock passed the suspend-until between their evaluations.
C17_StrictlyBeforeOwnSample ==
    /\ \A w \in DOMAIN sweep :
        ClassifiedByOwnSample(w, sweep[w].n, sweep[w].evaluated)
    /\ \A s \in Range(scrapes) :
        /\ ClassifiedByOwnSample(s.w, s.n, s.evaluated)
        /\ \A e \in Range(s.evaluated) :
            (s.ok /\ Timed(e)) =>
                IF e.annotations[SUSPEND_UNTIL_ANNOTATION].t < e.at
                THEN ~Reported(s.gAll, e.name)
                ELSE /\ ReportedAs(s.gAll, e.name, 1)
                     /\ ReportedAs(s.gIndefinite, e.name, 0)

\* one published sweep evaluated two resources with the same suspend-until:
\* the first with the clock at that very instant, which it reported with a
\* timeout, the second after the clock had moved on, which it cleared
C17_Witness ==
    \E s \in Range(scrapes) : \E e1, e2 \in Range(s.evaluated) :
        /\ s.ok /\ Timed(e1) /\ Timed(e2)
        /\ e1.annotations[SUSPEND_UNTIL_ANNOTATION] = e2.annotations[SUSPEND_UNTIL_ANNOTATION]
        /\ e1.at = e1.annotations[SUSPEND_UNTIL_ANNOTATION].t
        /\ ReportedAs(s.gAll, e1.name, 1)
        /\ ReportedAs(s.gIndefinite, e1.name, 0)
        /\ e2.at > e1.at
        /\ Patched(s.w, s.n, e2.name)
        /\ RECONCILE_ANNOTATION \notin DOMAIN annotations[e2.name]

\* C18: a sweep never un-suspends a resource whose suspension is still in
\* force: whenever a removal call of a sweep takes effect, the resource as
\* the server holds it at that moment has reconcile "disabled" and a
\* suspend-until before the clock the sweep sampled for it, also when
\* somebody extended the suspension, or suspended the resource anew, after
\* the sweep listed it.
C18_NeverClearsSuspensionInForce ==
    \A c \in Range(calls) :
        c.status = 200 =>
            /\ Disabled(c.before)
            /\ ValidUntil(c.before)
            /\ \A e \in Range(EvaluatedBy(c.w, c.n)) :
                e.name = c.name => c.before[SUSPEND_UNTIL_ANNOTATION].t < e.at

\* the collect() call of worker w is under way
Running(w) == w \in DOMAIN sweep /\ sweep[w].pc # "idle"

\* the entries of "evaluated" for object o
EvaluationsOf(evaluated, o) == {i \in DOMAIN evaluated : evaluated[i].name = o}

\* no sweep evaluates a resource twice, sends two removal calls for it or
\* has two samples for it in a gauge family; a sweep that ran to its end
\* without a failure evaluated every instance of every listable kind once
EachInstanceOnce ==
    /\ \A w \in DOMAIN sweep : \A o \in Objects :
        /\ Cardinality(EvaluationsOf(sweep[w].evaluated, o)) <= 1
        /\ Cardinality(Samples(sweep[w].gAll, o)) <= 1
        /\ Cardinality(Samples(sweep[w].gUnowned, o)) <= 1
        /\ Cardinality(Samples(sweep[w].gIndefinite, o)) <= 1
    /\ \A s \in Range(scrapes) : \A o \in Objects :
        /\ Cardinality(EvaluationsOf(s.evaluated, o)) <= 1
        /\ Cardinality(CallsOf(s, o)) <= 1
        /\ Cardinality(Samples(s.gAll, o)) <= 1
        /\ Cardinality(Samples(s.gUnowned, o)) <= 1
        /\ Cardinality(Samples(s.gIndefinite, o)) <= 1
        /\ s.ok =>
            Cardinality(EvaluationsOf(s.evaluated, o)) = IF ObjectListable(o) THEN 1 ELSE 0

\* C19: with every remote call returning, a collect() call that was started
\* comes to its end, by returning or by raising; and a sweep without
\* failures evaluates every instance of every listable kind exactly once, so
\* that a resource has at most one sample in each gauge family and gets at
\* most one removal call per sweep.
C19_SweepEndsEachInstanceOnce ==
    /\ []EachInstanceOnce
    /\ \A w \in Sweepers : Running(w) ~> ~Running(w)

\* a sweep ran to its end without a failure: it evaluated both listable
\* instances, cleared one and reported the other
C19_Witness ==
    \E s \in Range(scrapes) :
        /\ s.ok
        /\ Len(s.evaluated) = 2
        /\ Len(s.gAll) = 1
        /\ \E c \in Range(calls) : c.w = s.w /\ c.n = s.n /\ c.status = 200
        /\ ~Running(s.w)

=============================================================================
